---- MODULE Spec2Model ----
(***************************************************************************)
(* Heap-Layers: HybridHeap (heaps/combining/hybridheap.h) and              *)
(* BacktraceHeap (heaps/debug/backtraceheap.h) as state machines.          *)
(*                                                                         *)
(* Pointers are natural numbers, 0 is nullptr.  The nested heaps are the   *)
(* template parameters of the two classes: they are modelled by the Heap   *)
(* contract (malloc returns nullptr or a block that is not outstanding,    *)
(* whose getSize is at least the request), everything else they do is a    *)
(* nondeterministic choice.                                                *)
(***************************************************************************)
EXTENDS Naturals, Integers, Sequences, FiniteSets

Null == 0

(***************************************************************************)
(* Part I.  HybridHeap<BigSize, SmallHeap, BigHeap>                        *)
(***************************************************************************)

\* Bounds of the model: the largest request / reported size and the
\* largest address of the two nested heaps' pools.
MaxSz == 3
MaxPtr == 6

\* Template parameters of the instantiation under study.
BigSize == 2
SmallAlignment == 2
BigAlignment == 4

Sizes == 0..MaxSz

RECURSIVE GcdRec(_, _)
GcdRec(a, b) == IF b = 0 THEN a ELSE GcdRec(b, a % b)

\* enum { Alignment = gcd<SmallHeap::Alignment, BigHeap::Alignment>::value }
AlignmentOfMutant(sa, ba) == IF sa > ba THEN sa ELSE ba
AlignmentOf(sa, ba) == GcdRec(sa, ba)
Alignment == AlignmentOf(SmallAlignment, BigAlignment)

\* The blocks each nested heap can hand out: every block is aligned to its
\* heap's Alignment and the two heaps manage disjoint memory.
BigPool == {p \in 1..MaxPtr : p % BigAlignment = 0}
SmallPool == {p \in 1..MaxPtr : p % SmallAlignment = 0} \ BigPool

Owner(p) == IF p \in BigPool THEN "Big" ELSE "Small"

VARIABLES
  ndebug,     \* the build: TRUE when NDEBUG compiles the asserts away
  smallLive,  \* blocks outstanding in SmallHeap
  bigLive,    \* blocks outstanding in BigHeap (the member bm)
  held,       \* pointers HybridHeap::malloc returned and the caller still holds
  req,        \* held pointer -> the size it was requested with
  smallSz,    \* held pointer -> what SmallHeap::getSize reports for it
  hop,        \* the last HybridHeap operation: arguments, nested calls, outcome
  hhalt       \* "run", or "abort" (assert failed), or "ub" (nested heap misused)

hvars == <<ndebug, smallLive, bigLive, held, req, smallSz, hop, hhalt>>

\* The state of BacktraceHeap (Part II).
VARIABLES
  live,       \* blocks outstanding in SuperHeap
  objects,    \* _objects: the head of the list
  next,       \* TraceObj::next of the record at each block address
  prev,       \* TraceObj::prev
  mutex,      \* the thread that owns _mutex, or NoThread
  pc,         \* where each thread is
  obj,        \* each thread's local variable obj
  tracked,    \* history: records linked, not unlinked, since the last clear_leaks
  cleared,    \* history: outstanding records that a clear_leaks dropped
  dangling,   \* history: SuperHeap::clear() ran while the list was not empty, and
              \*   the list has not been emptied before the next allocation
  wTodo,      \* history of the running print_leaks: the records that were in
              \*   the list at entry, are not freed since, and are not yet reported
  wDone,      \*   those of them it has reported
  wBad,       \*   it has reported one of them twice
  wCurFreed,  \*   a reentrant free released the record it was reporting
  ub          \* a released record has been dereferenced

bvars == <<live, objects, next, prev, mutex, pc, obj, tracked, cleared,
           dangling, wTodo, wDone, wBad, wCurFreed, ub>>

\* The state of the whole-call view of BacktraceHeap (Part III).
VARIABLES
  lastCall,   \* the last whole call of BacktraceHeap: arguments, what it did, result
  order,      \* history: the records in the list, in the order link inserted them
  al,         \* HybridHeap over nested heaps of any alignment: the two alignments,
              \*   the build, and the last malloc
  lz,         \* the libbacktrace states of a USE_LIBBACKTRACE build: the two static
              \*   variables that hold one, the threads that look them up, and the
              \*   history of backtrace_create_state's calls
  fr          \* a Callstack being printed or observed: the build, the frames left,
              \*   and the last frame resolved (what the backends returned for it,
              \*   what was written, what the observer was told)

xvars == <<lastCall, order, al, lz, fr>>

vars == <<hvars, bvars, xvars>>

\* What a nested heap's malloc(sz) may do under the Heap contract: fail, or
\* return a block of its pool that is not outstanding, of usable size >= sz.
HeapMalloc(pool, outstanding, sz) ==
  {[ptr |-> Null, size |-> 0]} \cup
  {[ptr |-> p, size |-> s] : p \in pool \ outstanding, s \in {x \in Sizes : x >= sz}}

\* if (sz <= BigSize) SmallHeap::malloc(sz) else slowPath(sz)
UseSmallMutant(sz) == sz < BigSize
UseSmall(sz) == sz <= BigSize

\* What the nested malloc that HybridHeap::malloc(sz) calls may return.
NestedMalloc(sz) ==
  IF UseSmall(sz) THEN HeapMalloc(SmallPool, smallLive, sz)
                  ELSE HeapMalloc(BigPool, bigLive, sz)

\* if (SmallHeap::getSize(ptr) <= BigSize) SmallHeap::free(ptr) else bm.free(ptr)
FreeToSmallMutant(ss) == ss < BigSize
FreeToSmall(ss) == ss <= BigSize

\* The three asserts that follow the nested call, on the pointer it returned
\* (nullptr included): ss is SmallHeap::getSize(ptr), bs is bm.getSize(ptr).
AssertsPassAt(sz, ptr, ss, bs, a) ==
  /\ (ss < sz) => (bs >= sz)
  /\ ss >= sz
  /\ ptr % a = 0

AssertsPass(sz, ptr, ss, bs) == AssertsPassAt(sz, ptr, ss, bs, Alignment)

\* HybridHeap defines no getSize: the one of its base class SmallHeap is used.
HybridGetSize(p) == smallSz[p]

HybridInit ==
  /\ ndebug \in BOOLEAN
  /\ smallLive = {}
  /\ bigLive = {}
  /\ held = {}
  /\ req = [p \in {} |-> 0]
  /\ smallSz = [p \in {} |-> 0]
  /\ hop = [op |-> "none", sz |-> 0, ptr |-> Null, ss |-> 0, servSz |-> 0,
            calls |-> <<>>, out |-> "ret"]
  /\ hhalt = "run"

\* HybridHeap::malloc(sz).  r is what the selected nested heap returned; fs and
\* fb are what SmallHeap::getSize and bm.getSize report for a pointer that is
\* not a live block of theirs (nullptr, or a block of the other heap).
HybridMalloc(sz, r, fs, fb) ==
  LET small == UseSmall(sz)
      ptr == r.ptr
      ss == IF small /\ ptr # Null THEN r.size ELSE fs
      bs == IF ~small /\ ptr # Null THEN r.size ELSE fb
      ok == ndebug \/ AssertsPass(sz, ptr, ss, bs)
      call == [heap |-> IF small THEN "Small" ELSE "Big", op |-> "malloc",
               arg |-> sz, ret |-> ptr]
  IN
  /\ hhalt = "run"
  /\ r \in NestedMalloc(sz)
  /\ smallLive' = IF small /\ ptr # Null THEN smallLive \cup {ptr} ELSE smallLive
  /\ bigLive' = IF ~small /\ ptr # Null THEN bigLive \cup {ptr} ELSE bigLive
  /\ hop' = [op |-> "malloc", sz |-> sz, ptr |-> ptr, ss |-> ss,
             servSz |-> IF small THEN ss ELSE bs,
             calls |-> <<call>>, out |-> IF ok THEN "ret" ELSE "abort"]
  /\ hhalt' = IF ok THEN "run" ELSE "abort"
  /\ IF ok /\ ptr # Null
       THEN /\ held' = held \cup {ptr}
            /\ req' = [p \in held' |-> IF p = ptr THEN sz ELSE req[p]]
            /\ smallSz' = [p \in held' |-> IF p = ptr THEN ss ELSE smallSz[p]]
       ELSE UNCHANGED <<held, req, smallSz>>
  /\ UNCHANGED ndebug
  /\ UNCHANGED <<bvars, xvars>>

\* HybridHeap::free(ptr) of a pointer the caller holds.  Handing a nested heap
\* a block that is not an outstanding block of its own is undefined there.
HybridFree(ptr) ==
  LET ss == HybridGetSize(ptr)
      small == FreeToSmall(ss)
      call == [heap |-> IF small THEN "Small" ELSE "Big", op |-> "free",
               arg |-> ptr, ret |-> Null]
      mine == IF small THEN ptr \in smallLive ELSE ptr \in bigLive
  IN
  /\ hhalt = "run"
  /\ ptr \in held
  /\ smallLive' = IF small THEN smallLive \ {ptr} ELSE smallLive
  /\ bigLive' = IF ~small THEN bigLive \ {ptr} ELSE bigLive
  /\ held' = held \ {ptr}
  /\ req' = [p \in held' |-> req[p]]
  /\ smallSz' = [p \in held' |-> smallSz[p]]
  /\ hop' = [op |-> "free", sz |-> 0, ptr |-> ptr, ss |-> ss, servSz |-> 0,
             calls |-> <<call>>, out |-> "ret"]
  /\ hhalt' = IF mine THEN "run" ELSE "ub"
  /\ UNCHANGED ndebug
  /\ UNCHANGED <<bvars, xvars>>

\* HybridHeap::clear(): bm.clear(); SmallHeap::clear();
HybridClear ==
  /\ hhalt = "run"
  /\ smallLive' = {}
  /\ bigLive' = {}
  /\ held' = {}
  /\ req' = [p \in {} |-> 0]
  /\ smallSz' = [p \in {} |-> 0]
  /\ hop' = [op |-> "clear", sz |-> 0, ptr |-> Null, ss |-> 0, servSz |-> 0,
             calls |-> <<[heap |-> "Big", op |-> "clear", arg |-> 0, ret |-> Null],
                         [heap |-> "Small", op |-> "clear", arg |-> 0, ret |-> Null]>>,
             out |-> "ret"]
  /\ UNCHANGED <<ndebug, hhalt>>
  /\ UNCHANGED <<bvars, xvars>>

\* The reports of getSize on a pointer that is no live block of the heap asked
\* are chosen only where the code reads them.  The asserts read them, so an
\* NDEBUG build reads none in malloc; SmallHeap::getSize is read again by free,
\* for a pointer that came from bm; bm.getSize is read by the first assert
\* only, when SmallHeap::getSize reported less than sz.
ForeignSmall(sz, r) ==
  IF r.ptr = Null THEN (IF ndebug THEN {0} ELSE Sizes)
  ELSE IF UseSmall(sz) THEN {0} ELSE Sizes
ForeignBig(sz, r, fs) ==
  IF r.ptr = Null /\ ~ndebug /\ fs < sz THEN Sizes ELSE {0}

HybridNext ==
  \/ \E sz \in Sizes : \E r \in NestedMalloc(sz) :
       \E fs \in ForeignSmall(sz, r) : \E fb \in ForeignBig(sz, r, fs) :
         HybridMalloc(sz, r, fs, fb)
  \/ \E ptr \in held : HybridFree(ptr)
  \/ HybridClear


(***************************************************************************)
(* Claims about HybridHeap, checked under SpecHybrid (defined at the end   *)
(* of Part II, where all the variables are declared).                      *)
(***************************************************************************)

\* SmallHeap::getSize separates the two heaps' blocks by BigSize: it reports at
\* most BigSize for a block of SmallHeap and more than BigSize for one of bm.
Coupled(p, ss) == IF Owner(p) = "Small" THEN ss <= BigSize ELSE ss > BigSize

\* C1 (as stated): every free(ptr) of a live pointer is delivered to the nested
\* heap whose malloc produced ptr, whatever contract-abiding heaps are nested.
C1_Original ==
  hop.op = "free" => hop.calls[1].heap = Owner(hop.ptr)

\* C1 (amended): when SmallHeap::getSize reports at most BigSize for the
\* pointers of SmallHeap and more than BigSize for those of BigHeap, free(ptr)
\* makes exactly one nested call, free(ptr) on the heap that produced ptr.
C1_Amended ==
  (hop.op = "free" /\ Coupled(hop.ptr, hop.ss)) =>
     /\ hop.calls = <<[heap |-> Owner(hop.ptr), op |-> "free",
                       arg |-> hop.ptr, ret |-> Null]>>
     /\ hhalt = "run"

C1_Witness ==
  /\ hop.op = "free" /\ Owner(hop.ptr) = "Small" /\ hop.ss = BigSize
  /\ hop.calls[1].heap = "Small" /\ bigLive # {}

\* C2: malloc(n) makes exactly one nested call, SmallHeap::malloc(n) when
\* n <= BigSize and bm.malloc(n) when n > BigSize, and returns what it returned.
C2_Routing ==
  hop.op = "malloc" =>
     /\ Len(hop.calls) = 1
     /\ hop.calls[1].op = "malloc"
     /\ hop.calls[1].arg = hop.sz
     /\ hop.calls[1].heap = (IF hop.sz <= BigSize THEN "Small" ELSE "Big")
     /\ hop.calls[1].ret = hop.ptr
     /\ (hop.ptr # Null) => (Owner(hop.ptr) = hop.calls[1].heap)
     /\ (hop.out = "ret" /\ hop.ptr # Null) => hop.ptr \in held

C2_Witness ==
  /\ hop.op = "malloc" /\ hop.sz = BigSize /\ hop.out = "ret"
  /\ hop.ptr \in SmallPool /\ bigLive # {}

\* C3: when the selected nested heap returns nullptr, malloc returns nullptr
\* to its caller: no abort, no failed assertion, no second nested call.
C3_NullPropagates ==
  (hop.op = "malloc" /\ hop.ptr = Null) =>
     /\ hop.out = "ret"
     /\ hhalt = "run"
     /\ Len(hop.calls) = 1

\* C4: with asserts compiled in, malloc(n) aborts exactly when the nested heap
\* that serviced the request reports a size below n for the block it returned
\* or returned a misaligned block.
C4_AbortIffServicingHeapFails ==
  (hop.op = "malloc" /\ ~ndebug /\ hop.ptr # Null) =>
     ((hop.out = "abort") <=>
        (hop.servSz < hop.sz \/ hop.ptr % Alignment # 0))

\* C5: HybridHeap's own getSize(p) is at least n for every pointer p that
\* malloc(n) returned and that is still live.
C5_GetSizeCoversRequest ==
  \A p \in held : HybridGetSize(p) >= req[p]

(***************************************************************************)
(* Part II.  BacktraceHeap<SuperHeap, stackSize>                           *)
(*                                                                         *)
(* Addresses are counted in units of sizeof(TraceObj).  SuperHeap hands    *)
(* out blocks at the odd addresses; the TraceObj header sits at the block  *)
(* address and the caller's pointer is obj + 1.  Threads run malloc, free, *)
(* clear_leaks and print_leaks step by step; the steps are the points at   *)
(* which another thread can be scheduled.                                  *)
(***************************************************************************)

\* Bounds of the model: the threads and the blocks SuperHeap can hand out.
NThreads == 2
MaxBlocks == 3

Threads == 1..NThreads
Blocks == {2 * i - 1 : i \in 1..MaxBlocks}
NoThread == 0

\* return obj + 1;
Payload(o) == o + 1
\* TraceObj* obj = (TraceObj*)ptr; --obj;
HeaderMutant(ptr) == ptr
Header(ptr) == ptr - 1

MallocPcs == {"m_lock", "m_link", "m_ret"}
FreePcs == {"f_lock", "f_unlink", "f_free"}
PrintPcs == {"p_test", "p_body"}

\* Blocks that a malloc or free in progress is working on.
InFlight == {obj[t] : t \in {u \in Threads : pc[u] \in MallocPcs \cup FreePcs}}
\* Pointers malloc has returned and free has not been called on.
Held == {Payload(b) : b \in live \ InFlight}

\* The list as a value, so that link and unlink can be composed.
List == [head |-> objects, next |-> next, prev |-> prev]

\* link, first half:  obj->prev = nullptr; obj->next = _objects;
LinkAMutant(s, o) == [s EXCEPT !.prev[o] = Null, !.next[o] = Null]
LinkA(s, o) == [s EXCEPT !.prev[o] = Null, !.next[o] = s.head]

\* link, second half:  if (_objects) _objects->prev = obj; _objects = obj;
LinkBMutant(s, o) ==
  [s EXCEPT !.prev = IF s.head # Null THEN [s.prev EXCEPT ![s.head] = o] ELSE s.prev]
LinkB(s, o) ==
  [s EXCEPT !.prev = IF s.head # Null THEN [s.prev EXCEPT ![s.head] = o] ELSE s.prev,
            !.head = o]

\* unlink, first half:  if (_objects == obj) _objects = obj->next;
UnlinkAMutant(s, o) == [s EXCEPT !.head = s.next[o]]
UnlinkAKeepsHead(s, o) == s
UnlinkA(s, o) == IF s.head = o THEN [s EXCEPT !.head = s.next[o]] ELSE s

\* unlink, second half:  if (obj->prev) obj->prev->next = obj->next;
\*                       if (obj->next) obj->next->prev = obj->prev;
UnlinkBMutant(s, o) ==
  IF s.prev[o] # Null THEN [s EXCEPT !.next[s.prev[o]] = s.next[o]] ELSE s
UnlinkB(s, o) ==
  LET s1 == IF s.prev[o] # Null THEN [s EXCEPT !.next[s.prev[o]] = s.next[o]] ELSE s
  IN  IF s1.next[o] # Null THEN [s1 EXCEPT !.prev[s1.next[o]] = s1.prev[o]] ELSE s1

\* The records each half dereferences besides obj itself.
LinkBTouches(s, o) == {s.head} \ {Null}
UnlinkBTouches(s, o) == {s.prev[o], s.next[o]} \ {Null}

\* std::lock_guard<std::recursive_mutex>: a thread gets the mutex when it is
\* free or when the thread itself already owns it.
CanLockMutant(t) == mutex = NoThread
CanLockAlways(t) == TRUE
CanLock(t) == mutex \in {NoThread, t}

\* What SuperHeap::malloc may return: nullptr, or a block not outstanding.
SuperMalloc == {Null} \cup (Blocks \ live)

\* Records reachable from a record by next pointers, in at most n steps.
RECURSIVE ReachFrom(_, _, _)
ReachFrom(o, nx, n) ==
  IF o = Null \/ n = 0 THEN {} ELSE {o} \cup ReachFrom(nx[o], nx, n - 1)
Reachable == ReachFrom(objects, next, MaxBlocks)

\* The number of steps of the walk for (obj = _objects; obj; obj = obj->next),
\* or MaxBlocks + 1 when it does not end within MaxBlocks records.
RECURSIVE WalkLen(_, _, _)
WalkLen(o, nx, n) ==
  IF o = Null THEN 0 ELSE IF n = 0 THEN 1 ELSE 1 + WalkLen(nx[o], nx, n - 1)

SetList(s) ==
  /\ objects' = s.head
  /\ next' = s.next
  /\ prev' = s.prev

BtInit ==
  /\ live = {}
  /\ objects = Null
  /\ next = [b \in Blocks |-> Null]
  /\ prev = [b \in Blocks |-> Null]
  /\ mutex = NoThread
  /\ pc = [t \in Threads |-> "idle"]
  /\ obj = [t \in Threads |-> Null]
  /\ tracked = {}
  /\ cleared = {}
  /\ dangling = FALSE
  /\ wTodo = {}
  /\ wDone = {}
  /\ wBad = FALSE
  /\ wCurFreed = FALSE
  /\ ub = FALSE

\* The state in which the part of the program a specification does not run rests.
HybridIdle ==
  /\ ndebug = FALSE
  /\ smallLive = {}
  /\ bigLive = {}
  /\ held = {}
  /\ req = [p \in {} |-> 0]
  /\ smallSz = [p \in {} |-> 0]
  /\ hop = [op |-> "none", sz |-> 0, ptr |-> Null, ss |-> 0, servSz |-> 0,
            calls |-> <<>>, out |-> "ret"]
  /\ hhalt = "run"

\* No whole call has been made.
NoCall ==
  [op |-> "none", n |-> 0, asked |-> 0, block |-> Null, ptr |-> Null, size |-> 0,
   result |-> 0, events |-> <<>>, visited |-> <<>>]

CallsIdle ==
  /\ lastCall = NoCall
  /\ order = <<>>

\* HybridHeap<BigSize, SmallHeap, BigHeap> with SmallHeap::Alignment = sa and
\* BigHeap::Alignment = ba, built with (ndebug) or without NDEBUG, not used yet.
NoAlign(sa, ba, nd) ==
  [sa |-> sa, ba |-> ba, ndebug |-> nd, op |-> "none", sz |-> 0, heap |-> "none",
   ptr |-> Null, out |-> "ret"]

AlignIdle == al = NoAlign(SmallAlignment, BigAlignment, FALSE)

\* Before any thread has asked for a libbacktrace state.  csInit, csState:
\* the static btstate of get_libbacktrace_state, and whether its initializer
\* has run; hbState: the static btstate of print_leaks; csCreated, hbCreated:
\* the calls of backtrace_create_state made for each.
LazyIdle ==
  lz = [csInit |-> FALSE, csState |-> Null, hbState |-> Null,
        pc |-> [t \in Threads |-> "idle"], tmp |-> [t \in Threads |-> Null],
        inst |-> [t \in Threads |-> 0], csCreated |-> 0, hbCreated |-> 0,
        reassigned |-> FALSE]

\* What dladdr fills in when it fails and the code clears the Dl_info, and
\* what backtrace_pcinfo is when it is not called.
NoDl == [ok |-> FALSE, fname |-> FALSE, sname |-> FALSE]
NoIn == [addr |-> 0, dl |-> NoDl, err |-> FALSE, cbs |-> <<>>, dmFn |-> FALSE,
         dmSym |-> FALSE, stop |-> 0]

\* No Callstack is being printed or observed, in a build with (libbt) or
\* without USE_LIBBACKTRACE.
NoFrames(libbt) ==
  [libbt |-> libbt, mode |-> "none", n |-> 0, i |-> 0, inFrame |-> FALSE,
   done |-> FALSE, inp |-> NoIn, out |-> <<>>, outAddr |-> 0, calls |-> <<>>]

FramesIdle == fr = NoFrames(FALSE)

XIdle ==
  /\ CallsIdle
  /\ AlignIdle
  /\ LazyIdle
  /\ FramesIdle

Goto(t, l) == pc' = [pc EXCEPT ![t] = l]
WalkVars == <<wTodo, wDone, wBad, wCurFreed>>

\* malloc: TraceObj* obj = SuperHeap::malloc(sz + sizeof(TraceObj));
\*         if (obj == nullptr) return obj;   obj->nFrames = backtrace(...);
MallocSuper(t, b) ==
  /\ ~ub /\ pc[t] = "idle"
  /\ b \in SuperMalloc
  /\ IF b = Null
       THEN UNCHANGED <<live, pc, obj>>
       ELSE /\ live' = live \cup {b}
            /\ obj' = [obj EXCEPT ![t] = b]
            /\ Goto(t, "m_lock")
  /\ UNCHANGED <<objects, next, prev, mutex, tracked, cleared, dangling, WalkVars, ub>>
  /\ UNCHANGED <<hvars, xvars>>

\* link: the lock_guard's constructor, then
\*       obj->prev = nullptr; obj->next = _objects;
LinkLock(t) ==
  /\ ~ub /\ pc[t] = "m_lock"
  /\ CanLock(t)
  /\ mutex' = t
  /\ SetList(LinkA(List, obj[t]))
  /\ Goto(t, "m_link")
  /\ UNCHANGED <<live, obj, tracked, cleared, dangling, WalkVars, ub>>
  /\ UNCHANGED <<hvars, xvars>>

\* link's last two statements and the lock_guard's destructor.
LinkSecond(t) ==
  /\ ~ub /\ pc[t] = "m_link"
  /\ IF LinkBTouches(List, obj[t]) \subseteq live
       THEN /\ SetList(LinkB(List, obj[t]))
            /\ tracked' = tracked \cup {obj[t]}
            /\ mutex' = NoThread
            /\ Goto(t, "m_ret")
            /\ UNCHANGED ub
       ELSE /\ ub' = TRUE
            /\ UNCHANGED <<objects, next, prev, tracked, mutex, pc>>
  /\ UNCHANGED <<live, obj, cleared, dangling, WalkVars>>
  /\ UNCHANGED <<hvars, xvars>>

\* malloc: return obj + 1;
MallocReturn(t) ==
  /\ ~ub /\ pc[t] = "m_ret"
  /\ Goto(t, "idle")
  /\ obj' = [obj EXCEPT ![t] = Null]
  /\ UNCHANGED <<live, objects, next, prev, mutex, tracked, cleared, dangling, WalkVars, ub>>
  /\ UNCHANGED <<hvars, xvars>>

\* free(ptr) of a pointer the caller holds:  obj = (TraceObj*)ptr; --obj;
FreeCall(t, ptr) ==
  /\ ~ub /\ pc[t] = "idle"
  /\ ptr \in Held
  /\ obj' = [obj EXCEPT ![t] = Header(ptr)]
  /\ Goto(t, "f_lock")
  /\ UNCHANGED <<live, objects, next, prev, mutex, tracked, cleared, dangling, WalkVars, ub>>
  /\ UNCHANGED <<hvars, xvars>>

\* unlink: the lock_guard's constructor, then
\*         if (_objects == obj) _objects = obj->next;
UnlinkLock(t) ==
  /\ ~ub /\ pc[t] = "f_lock"
  /\ CanLock(t)
  /\ mutex' = t
  /\ SetList(UnlinkA(List, obj[t]))
  /\ Goto(t, "f_unlink")
  /\ UNCHANGED <<live, obj, tracked, cleared, dangling, WalkVars, ub>>
  /\ UNCHANGED <<hvars, xvars>>

\* unlink's last two statements and the lock_guard's destructor.
UnlinkSecond(t) ==
  /\ ~ub /\ pc[t] = "f_unlink"
  /\ IF UnlinkBTouches(List, obj[t]) \subseteq live
       THEN /\ SetList(UnlinkB(List, obj[t]))
            /\ tracked' = tracked \ {obj[t]}
            /\ mutex' = NoThread
            /\ Goto(t, "f_free")
            /\ UNCHANGED ub
       ELSE /\ ub' = TRUE
            /\ UNCHANGED <<objects, next, prev, tracked, mutex, pc>>
  /\ UNCHANGED <<live, obj, cleared, dangling, WalkVars>>
  /\ UNCHANGED <<hvars, xvars>>

\* What SuperHeap::free(b) leaves: the block is no longer outstanding, and
\* what its bytes hold is no longer defined (reading them sets ub).
Released(f, bs) == [b \in Blocks |-> IF b \in bs THEN Null ELSE f[b]]

\* free: SuperHeap::free(obj);
FreeSuper(t) ==
  /\ ~ub /\ pc[t] = "f_free"
  /\ live' = live \ {obj[t]}
  /\ next' = Released(next, {obj[t]})
  /\ prev' = Released(prev, {obj[t]})
  /\ cleared' = cleared \ {obj[t]}
  /\ obj' = [obj EXCEPT ![t] = Null]
  /\ Goto(t, "idle")
  /\ UNCHANGED <<objects, mutex, tracked, dangling, WalkVars, ub>>
  /\ UNCHANGED <<hvars, xvars>>

\* clear_leaks: lock_guard; _objects = nullptr;
ClearLeaks(t) ==
  /\ ~ub /\ pc[t] = "idle"
  /\ CanLock(t)
  /\ objects' = Null
  /\ cleared' = cleared \cup (tracked \cap live)
  /\ tracked' = {}
  /\ dangling' = (dangling /\ live # {})
  /\ UNCHANGED <<live, next, prev, mutex, pc, obj, WalkVars, ub>>
  /\ UNCHANGED <<hvars, xvars>>

\* print_leaks: lock_guard; for (auto obj = _objects; ...
PrintLock(t) ==
  /\ ~ub /\ pc[t] = "idle"
  /\ CanLock(t)
  /\ mutex' = t
  /\ obj' = [obj EXCEPT ![t] = objects]
  /\ Goto(t, "p_test")
  /\ wTodo' = Reachable
  /\ wDone' = {}
  /\ wBad' = FALSE
  /\ wCurFreed' = FALSE
  /\ UNCHANGED <<live, objects, next, prev, tracked, cleared, dangling, ub>>
  /\ UNCHANGED <<hvars, xvars>>

\* print_leaks: the loop test succeeds and the record is reported, which reads
\* SuperHeap::getSize(obj), obj->nFrames and obj->callStack.
PrintVisit(t) ==
  /\ ~ub /\ pc[t] = "p_test" /\ obj[t] # Null
  /\ IF obj[t] \in live
       THEN /\ wTodo' = wTodo \ {obj[t]}
            /\ wDone' = wDone \cup (wTodo \cap {obj[t]})
            /\ wBad' = (wBad \/ obj[t] \in wDone)
            /\ Goto(t, "p_body")
            /\ UNCHANGED ub
       ELSE /\ ub' = TRUE
            /\ UNCHANGED <<wTodo, wDone, wBad, pc>>
  /\ UNCHANGED <<live, objects, next, prev, mutex, obj, tracked, cleared, dangling,
                 wCurFreed>>
  /\ UNCHANGED <<hvars, xvars>>

\* print_leaks: obj = obj->next
PrintAdvance(t) ==
  /\ ~ub /\ pc[t] = "p_body"
  /\ IF obj[t] \in live
       THEN /\ obj' = [obj EXCEPT ![t] = next[obj[t]]]
            /\ Goto(t, "p_test")
            /\ UNCHANGED ub
       ELSE /\ ub' = TRUE
            /\ UNCHANGED <<obj, pc>>
  /\ UNCHANGED <<live, objects, next, prev, mutex, tracked, cleared, dangling, WalkVars>>
  /\ UNCHANGED <<hvars, xvars>>

\* print_leaks: the loop test fails; the lock_guard's destructor.
PrintExit(t) ==
  /\ ~ub /\ pc[t] = "p_test" /\ obj[t] = Null
  /\ mutex' = NoThread
  /\ Goto(t, "idle")
  /\ wTodo' = {}
  /\ wDone' = {}
  /\ wBad' = FALSE
  /\ wCurFreed' = FALSE
  /\ UNCHANGED <<live, objects, next, prev, obj, tracked, cleared, dangling, ub>>
  /\ UNCHANGED <<hvars, xvars>>

\* malloc called from within print_leaks' loop body by the thread that runs it
\* (::malloc interposed): the whole call, which no other thread's list
\* operation can interleave with, since this thread owns the mutex.
ReentrantMalloc(t, b) ==
  /\ ~ub /\ pc[t] = "p_body"
  /\ b \in SuperMalloc
  /\ IF b = Null
       THEN UNCHANGED <<live, objects, next, prev, tracked, ub>>
       ELSE /\ CanLock(t)
            /\ live' = live \cup {b}
            /\ IF LinkBTouches(LinkA(List, b), b) \subseteq live
                 THEN /\ SetList(LinkB(LinkA(List, b), b))
                      /\ tracked' = tracked \cup {b}
                      /\ UNCHANGED ub
                 ELSE /\ ub' = TRUE
                      /\ UNCHANGED <<objects, next, prev, tracked>>
  /\ UNCHANGED <<mutex, pc, obj, cleared, dangling, WalkVars>>
  /\ UNCHANGED <<hvars, xvars>>

\* free called from within print_leaks' loop body by the thread that runs it.
ReentrantFree(t, ptr) ==
  LET o == Header(ptr)
      s == UnlinkB(UnlinkA(List, o), o)
  IN
  /\ ~ub /\ pc[t] = "p_body"
  /\ ptr \in Held
  /\ CanLock(t)
  /\ IF UnlinkBTouches(UnlinkA(List, o), o) \subseteq live
       THEN /\ objects' = s.head
            /\ next' = Released(s.next, {o})
            /\ prev' = Released(s.prev, {o})
            /\ live' = live \ {o}
            /\ tracked' = tracked \ {o}
            /\ cleared' = cleared \ {o}
            /\ wTodo' = wTodo \ {o}
            /\ wDone' = wDone \ {o}
            /\ wCurFreed' = (wCurFreed \/ o = obj[t])
            /\ UNCHANGED ub
       ELSE /\ ub' = TRUE
            /\ UNCHANGED <<objects, next, prev, live, tracked, cleared, wTodo, wDone,
                           wCurFreed>>
  /\ UNCHANGED <<mutex, pc, obj, dangling, wBad>>
  /\ UNCHANGED <<hvars, xvars>>

\* SuperHeap::clear(), which BacktraceHeap inherits unchanged, called while no
\* other call is in progress: every block is released, the list is not touched.
Reset(t) ==
  /\ ~ub
  /\ \A u \in Threads : pc[u] = "idle"
  /\ live # {}
  /\ live' = {}
  /\ next' = Released(next, live)
  /\ prev' = Released(prev, live)
  /\ cleared' = {}
  /\ dangling' = (dangling \/ objects # Null)
  /\ UNCHANGED <<objects, mutex, pc, obj, tracked, WalkVars, ub>>
  /\ UNCHANGED <<hvars, xvars>>

\* The thread that, in the sequential specification, makes every call.
Main == 1

Init == BtInit /\ HybridIdle /\ XIdle

\* One thread calling malloc, free, clear_leaks and print_leaks (with the
\* reentrant calls made from inside it) in any order.
NextSeq ==
  \/ \E b \in {Null} \cup Blocks : MallocSuper(Main, b)
  \/ LinkLock(Main)
  \/ LinkSecond(Main)
  \/ MallocReturn(Main)
  \/ \E ptr \in Held : FreeCall(Main, ptr)
  \/ UnlinkLock(Main)
  \/ UnlinkSecond(Main)
  \/ FreeSuper(Main)
  \/ ClearLeaks(Main)
  \/ PrintLock(Main)
  \/ PrintVisit(Main)
  \/ PrintAdvance(Main)
  \/ PrintExit(Main)
  \/ \E b \in {Null} \cup Blocks : ReentrantMalloc(Main, b)
  \/ \E ptr \in Held : ReentrantFree(Main, ptr)

Spec == Init /\ [][NextSeq]_vars

\* The same with SuperHeap::clear(), which the class inherits, among the calls.
NextReset ==
  \/ NextSeq
  \/ Reset(Main)

SpecReset == Init /\ [][NextReset]_vars

\* NThreads threads calling malloc and free concurrently, while the thread
\* Main also calls clear_leaks and print_leaks.
NextConc ==
  \/ ClearLeaks(Main)
  \/ PrintLock(Main)
  \/ PrintVisit(Main)
  \/ PrintAdvance(Main)
  \/ PrintExit(Main)
  \/ \E t \in Threads :
       \/ \E b \in {Null} \cup Blocks : MallocSuper(t, b)
       \/ LinkLock(t)
       \/ LinkSecond(t)
       \/ MallocReturn(t)
       \/ \E ptr \in Held : FreeCall(t, ptr)
       \/ UnlinkLock(t)
       \/ UnlinkSecond(t)
       \/ FreeSuper(t)

SpecConc == Init /\ [][NextConc]_vars

\* HybridHeap alone, in either build.
InitHybrid == HybridInit /\ BtInit /\ XIdle

SpecHybrid == InitHybrid /\ [][HybridNext]_vars

(***************************************************************************)
(* Claims about BacktraceHeap.                                             *)
(***************************************************************************)

\* The list from _objects is a doubly-linked list of outstanding records: the
\* walk ends, no record occurs twice, and prev mirrors next.
WellFormed ==
  /\ Reachable \subseteq live
  /\ WalkLen(objects, next, MaxBlocks) = Cardinality(Reachable)
  /\ objects # Null => prev[objects] = Null
  /\ \A x \in Reachable : next[x] # Null => prev[next[x]] = x

\* C6, checked under SpecReset, with "outstanding" read in clear_leaks' favour:
\* between calls, after any sequence of malloc, free, clear_leaks, clear and
\* print_leaks, the records reachable from the head are exactly the
\* outstanding allocations that no clear_leaks has dropped, each of them once.
C6_RegistryIsOutstanding ==
  pc[Main] = "idle" =>
     /\ Reachable = live \ cleared
     /\ WalkLen(objects, next, MaxBlocks) = Cardinality(Reachable)

\* C7, checked under SpecConc: in every interleaving the list never becomes
\* cyclic or reaches a released record, and whenever no thread is inside link
\* or unlink it is a well-formed list of exactly the records linked and not
\* yet unlinked.
C7_Consistent ==
  /\ Reachable \subseteq live
  /\ WalkLen(objects, next, MaxBlocks) <= MaxBlocks
  /\ (\A t \in Threads : pc[t] \notin {"m_link", "f_unlink"}) =>
        /\ WellFormed
        /\ Reachable = tracked
        /\ Cardinality(Reachable) = Cardinality(tracked)

C7_Witness ==
  /\ \A t \in Threads : pc[t] \notin {"m_link", "f_unlink"}
  /\ Cardinality(tracked) >= 2
  /\ \E t, u \in Threads : pc[t] = "m_ret" /\ pc[u] = "f_lock"

\* Records of calls in progress, by how far the call has got.
AllocExecuting == {obj[u] : u \in {v \in Threads : pc[v] \in MallocPcs}}
NotYetLinked == {obj[u] : u \in {v \in Threads : pc[v] \in {"m_lock", "m_link"}}}
AlreadyUnlinked == {obj[u] : u \in {v \in Threads : pc[v] = "f_free"}}
Walking == \E t \in Threads : pc[t] \in PrintPcs

\* C8 (as stated), checked under SpecConc: what a traversal sees is exactly
\* the records whose malloc has returned and whose free has not completed.
C8_Original ==
  Walking => Reachable = live \ AllocExecuting

\* C8 (amended), checked under SpecConc: what a traversal sees is exactly the
\* records that link has linked and unlink has not unlinked since the last
\* clear_leaks: never a record that malloc has not linked yet, never one that
\* free has unlinked, always one whose malloc has returned and whose free has
\* not been called (unless clear_leaks dropped it).
C8_Amended ==
  Walking =>
     /\ Reachable = (live \ cleared) \ (NotYetLinked \cup AlreadyUnlinked)
     /\ (live \ InFlight) \ cleared \subseteq Reachable

C8_Witness ==
  /\ Walking
  /\ \E u \in Threads : pc[u] = "m_ret" /\ obj[u] \in Reachable
  /\ Cardinality(Reachable) >= 2

\* The walk is over: the loop test has found obj == nullptr.
WalkOver(t) == pc[t] = "p_test" /\ obj[t] = Null

\* The records the walk has yet to reach.
Ahead(t) ==
  ReachFrom(IF pc[t] = "p_body" THEN next[obj[t]] ELSE obj[t], next, MaxBlocks)

\* A reentrant free is not blocked.
CanReenter(t) ==
  (pc[t] = "p_body" /\ Held # {}) => ENABLED (\E ptr \in Held : ReentrantFree(t, ptr))

\* C9 (as stated), checked under Spec: whatever reentrant calls print_leaks'
\* thread makes during the walk, they do not block, the walk does not read a
\* released record, and when it ends every record that was in the list at
\* entry and has not been freed since has been reported exactly once.
C9_Original ==
  pc[Main] \in PrintPcs =>
     /\ CanReenter(Main)
     /\ ~ub
     /\ ~wBad
     /\ WalkOver(Main) => wTodo = {}

\* C9 (amended), checked under Spec: the same, as long as no reentrant free
\* releases the record that is being reported; and the walk ends, because the
\* records ahead of it are exactly those still to be reported.
C9_Amended ==
  (pc[Main] \in PrintPcs /\ ~wCurFreed) =>
     /\ CanReenter(Main)
     /\ ~ub
     /\ ~wBad
     /\ Ahead(Main) = wTodo
     /\ WalkOver(Main) => wTodo = {}

C9_Witness ==
  /\ WalkOver(Main) /\ ~wCurFreed
  /\ Cardinality(wDone) >= 2
  /\ Reachable \ wDone # {}

\* The records that no clear_leaks has dropped keep their place in the list.
Untouched ==
  /\ objects' = objects
  /\ \A r \in live \ cleared : next'[r] = next[r] /\ prev'[r] = prev[r]

\* A step of free, or a reentrant free, of a record that clear_leaks dropped.
FreesCleared ==
  \/ pc[Main] \in FreePcs /\ obj[Main] \in cleared /\ pc'[Main] # pc[Main]
  \/ pc[Main] = "p_body" /\ \E o \in cleared : o \notin live'

C10_State ==
  /\ pc[Main] = "idle" => Reachable = live \ cleared
  /\ (pc[Main] \in PrintPcs /\ ~wCurFreed) =>
        /\ wDone \cup wTodo \subseteq live \ cleared
        /\ WalkOver(Main) => wTodo = {}

\* C10, checked under Spec: between calls the list holds exactly the
\* outstanding allocations that no clear_leaks has dropped, and print_leaks
\* reports those and no others; clear_leaks releases no block and writes no
\* record; and freeing a record that clear_leaks dropped changes neither the
\* head nor the links of any other record.
C10_AfterClear ==
  /\ []C10_State
  /\ [][ClearLeaks(Main) => (live' = live /\ next' = next /\ prev' = prev)]_vars
  /\ [][FreesCleared => Untouched]_vars

C10_Witness ==
  /\ pc[Main] = "f_free" /\ obj[Main] \in cleared
  /\ Cardinality(cleared) >= 2
  /\ Reachable # {}

\* C11, checked under Spec: once every block malloc handed out has been
\* unlinked by its free (in whatever order, from inside print_leaks or not),
\* the list is empty: _objects is nullptr.
C11_RoundTripEmpty ==
  (live \subseteq AlreadyUnlinked) => objects = Null

\* The only block still outstanding is being released: free has unlinked its
\* record, which has emptied the list, and has yet to call SuperHeap::free.
C11_Witness ==
  /\ pc[Main] = "f_free" /\ live = {obj[Main]}
  /\ objects = Null

\* C20, checked under Spec: after any sequence of malloc (link), free (unlink)
\* and clear_leaks, print_leaks and the calls made from inside it included,
\* whenever no link or unlink is half done the list is well formed: the walk
\* from the head ends, meets no record twice and no released block, the
\* head's prev is null, and x.next.prev = x for every record x on it that has
\* a successor.
C20_ListWellFormed ==
  pc[Main] \notin {"m_link", "f_unlink"} => WellFormed

\* free has just unlinked a linked record, after a clear_leaks whose dropped
\* record is still outstanding, and a record remains in the list.
C20_Witness ==
  /\ pc[Main] = "f_free" /\ obj[Main] \notin cleared
  /\ cleared \ {obj[Main]} # {}
  /\ Reachable # {}

(***************************************************************************)
(* Part III.  BacktraceHeap, one whole call at a time.                     *)
(*                                                                         *)
(* One thread calls malloc, free, getSize and print_leaks; each call runs  *)
(* to its end, and lastCall records what it was given, the nested calls    *)
(* and steps it made in order, and what it returned.  Sizes are size_t     *)
(* values: arithmetic on them wraps around.                                *)
(***************************************************************************)

\* Bound of the model: the largest value of size_t.
SizeMax == 7

SizeT == 0..SizeMax
\* size_t arithmetic: x is at least -(SizeMax + 1).
Wrap(x) == (x + SizeMax + 1) % (SizeMax + 1)

\* sizeof(TraceObj), in the unit sizes are counted in.
HeaderSize == 2

\* SuperHeap::malloc(sz + sizeof(TraceObj))
AskedSize(n) == Wrap(n + HeaderSize)

\* return SuperHeap::getSize(((TraceObj*)ptr)-1) - sizeof(TraceObj);
GetSizeOf(superSize) == Wrap(superSize - HeaderSize)

\* if (obj == nullptr) return obj;
NullTestMutant(o) == FALSE
NullTest(o) == o = Null

Ev(f, a) == [f |-> f, arg |-> a]

\* The records from _objects along next, in the order print_leaks' loop
\* reaches them (at most n of them).
RECURSIVE WalkSeq(_, _, _)
WalkSeq(o, nx, n) ==
  IF o = Null \/ n = 0 THEN <<>> ELSE <<o>> \o WalkSeq(nx[o], nx, n - 1)

RECURSIVE Reverse(_)
Reverse(q) == IF q = <<>> THEN <<>> ELSE Reverse(Tail(q)) \o <<Head(q)>>

RECURSIVE Without(_, _)
Without(q, x) ==
  IF q = <<>> THEN <<>>
  ELSE IF Head(q) = x THEN Without(Tail(q), x) ELSE <<Head(q)>> \o Without(Tail(q), x)

CallIdle == ~ub /\ pc[Main] = "idle" /\ mutex = NoThread

\* malloc(n), the whole call.  b is what SuperHeap::malloc returned and s the
\* size SuperHeap reports for that block, at least what it was asked for.
\* Writing the header into a block smaller than the header is undefined.
CallMalloc(n, b, s) ==
  LET asked == AskedSize(n)
      l == LinkA(List, b)
  IN
  /\ CallIdle
  /\ b \in SuperMalloc
  /\ s \in SizeT /\ s >= asked /\ (b = Null => s = 0)
  /\ IF NullTest(b)
       THEN /\ lastCall' = [NoCall EXCEPT !.op = "malloc", !.n = n, !.asked = asked,
                              !.events = <<Ev("SuperHeap::malloc", asked)>>]
            /\ UNCHANGED <<live, objects, next, prev, tracked, order, ub>>
       ELSE /\ lastCall' = [NoCall EXCEPT !.op = "malloc", !.n = n, !.asked = asked,
                              !.block = b, !.ptr = Payload(b), !.size = s,
                              !.events = <<Ev("SuperHeap::malloc", asked),
                                           Ev("backtrace", b), Ev("lock", 0),
                                           Ev("link", b), Ev("unlock", 0)>>]
            /\ IF b \in Blocks /\ s >= HeaderSize /\ LinkBTouches(l, b) \subseteq live
                 THEN /\ live' = live \cup {b}
                      /\ SetList(LinkB(l, b))
                      /\ tracked' = tracked \cup {b}
                      /\ order' = Append(order, b)
                      /\ UNCHANGED ub
                 ELSE /\ ub' = TRUE
                      /\ UNCHANGED <<live, objects, next, prev, tracked, order>>
  /\ UNCHANGED <<mutex, pc, obj, cleared, dangling, WalkVars>>
  /\ UNCHANGED <<hvars, al, lz, fr>>

\* free(ptr) of a pointer the caller holds, the whole call.
CallFree(ptr) ==
  LET o == Header(ptr)
      l == UnlinkA(List, o)
  IN
  /\ CallIdle
  /\ ptr \in Held
  /\ lastCall' = [NoCall EXCEPT !.op = "free", !.ptr = ptr,
                    !.events = <<Ev("lock", 0), Ev("unlink", o), Ev("unlock", 0),
                                 Ev("SuperHeap::free", o)>>]
  /\ IF o \in live /\ UnlinkBTouches(l, o) \subseteq live
       THEN /\ objects' = UnlinkB(l, o).head
            /\ next' = Released(UnlinkB(l, o).next, {o})
            /\ prev' = Released(UnlinkB(l, o).prev, {o})
            /\ live' = live \ {o}
            /\ tracked' = tracked \ {o}
            /\ order' = Without(order, o)
            /\ UNCHANGED ub
       ELSE /\ ub' = TRUE
            /\ UNCHANGED <<live, objects, next, prev, tracked, order>>
  /\ UNCHANGED <<mutex, pc, obj, cleared, dangling, WalkVars>>
  /\ UNCHANGED <<hvars, al, lz, fr>>

\* getSize(ptr) of the pointer the last malloc returned.
CallGetSize ==
  /\ CallIdle
  /\ lastCall.op \in {"malloc", "getSize"} /\ lastCall.ptr # Null
  /\ lastCall' = [lastCall EXCEPT !.op = "getSize",
                    !.events = <<Ev("SuperHeap::getSize", Header(lastCall.ptr))>>,
                    !.result = GetSizeOf(lastCall.size)]
  /\ UNCHANGED <<order, al, lz, fr, bvars, hvars>>

\* print_leaks with no reentrant call, the whole call: the records it reports.
CallPrint ==
  /\ CallIdle
  /\ IF Reachable \subseteq live
       THEN /\ lastCall' = [NoCall EXCEPT !.op = "print",
                              !.visited = WalkSeq(objects, next, MaxBlocks)]
            /\ UNCHANGED ub
       ELSE /\ ub' = TRUE
            /\ UNCHANGED lastCall
  /\ UNCHANGED <<live, objects, next, prev, mutex, pc, obj, tracked, cleared,
                 dangling, WalkVars, order>>
  /\ UNCHANGED <<hvars, al, lz, fr>>

NextCalls ==
  \/ \E n \in SizeT, b \in {Null} \cup Blocks, s \in SizeT : CallMalloc(n, b, s)
  \/ \E ptr \in Held : CallFree(ptr)
  \/ CallGetSize
  \/ CallPrint

SpecCalls == Init /\ [][NextCalls]_vars

(***************************************************************************)
(* Claims about BacktraceHeap's calls, checked under SpecCalls.            *)
(***************************************************************************)

\* C12: for every n and every non-null p = malloc(n), getSize(p) is
\* SuperHeap's size of the block minus the header width, counts no header
\* byte, and is at least n, also when n + sizeof(TraceObj) wraps around.
C12_GetSizeCoversRequest ==
  lastCall.op = "getSize" =>
     /\ lastCall.result = lastCall.size - HeaderSize
     /\ lastCall.result >= lastCall.n

\* C13: when SuperHeap::malloc returns nullptr, malloc returns nullptr having
\* made no other step (no backtrace, no lock, no link), the lock is free, and
\* the list, head and links, is as it was.
C13_NullState ==
  (lastCall.op = "malloc" /\ lastCall.block = Null) =>
     /\ lastCall.ptr = Null
     /\ lastCall.events = <<Ev("SuperHeap::malloc", lastCall.asked)>>
     /\ mutex = NoThread
     /\ ~ub

C15_FreeStep ==
  lastCall'.op = "free" /\ <<live, ub>>' # <<live, ub>>

C15_ReleasesItsBlock ==
  [][C15_FreeStep =>
       LET e == lastCall'.events
       IN  /\ e[4].f = "SuperHeap::free" /\ e[2].f = "unlink" /\ e[2].arg = e[4].arg
           /\ e[4].arg \in live
           /\ Payload(e[4].arg) = lastCall'.ptr
           /\ lastCall'.ptr \in Held
           /\ live' = live \ {e[4].arg}
           /\ e[4].arg \notin ReachFrom(objects', next', MaxBlocks)
           /\ ~ub']_vars

\* A block has been freed whose address lies between those of two blocks that
\* are still outstanding.
C15_Witness ==
  /\ lastCall.op = "free" /\ ~ub
  /\ Cardinality(live) >= 2
  /\ Header(lastCall.ptr) \notin live
  /\ \E a, b \in live : a < Header(lastCall.ptr) /\ Header(lastCall.ptr) < b

\* C16: print_leaks reports the records newest first: in the reverse of the
\* order in which link inserted those that are still in the list.
C16_NewestFirst ==
  /\ WalkSeq(objects, next, MaxBlocks) = Reverse(order)
  /\ lastCall.op = "print" => lastCall.visited = Reverse(order)

\* A report of two records of which the newer has the lower address.
C16_Witness ==
  /\ lastCall.op = "print" /\ Len(lastCall.visited) >= 2
  /\ lastCall.visited[1] < lastCall.visited[2]

(***************************************************************************)
(* Part IV.  HybridHeap over nested heaps of any alignment.                *)
(***************************************************************************)

\* Bound of the model: the largest Alignment of a nested heap.
MaxAlign == 4

\* The blocks a heap of Alignment a can return.
AlignedTo(a) == {p \in 1..MaxPtr : p % a = 0}

InitAlign ==
  /\ BtInit /\ HybridIdle /\ CallsIdle /\ LazyIdle /\ FramesIdle
  /\ al \in {NoAlign(sa, ba, nd) : sa \in 1..MaxAlign, ba \in 1..MaxAlign,
                                   nd \in BOOLEAN}

\* HybridHeap::malloc(sz), seen from its caller.  p is what the selected nested
\* heap returned, nullptr or a block aligned to that heap's Alignment; ss and
\* bs are what SmallHeap::getSize(p) and bm.getSize(p) report.
AlignMalloc(sz, p, ss, bs) ==
  LET small == UseSmall(sz)
      ok == al.ndebug \/ AssertsPassAt(sz, p, ss, bs, AlignmentOf(al.sa, al.ba))
  IN
  /\ al.out = "ret"
  /\ p \in {Null} \cup AlignedTo(IF small THEN al.sa ELSE al.ba)
  /\ al' = [al EXCEPT !.op = "malloc", !.sz = sz,
                      !.heap = IF small THEN "Small" ELSE "Big",
                      !.ptr = p, !.out = IF ok THEN "ret" ELSE "abort"]
  /\ UNCHANGED <<lastCall, order, lz, fr, hvars, bvars>>

NextAlign ==
  \E sz \in Sizes, p \in 0..MaxPtr, ss \in Sizes, bs \in Sizes : AlignMalloc(sz, p, ss, bs)

SpecAlign == InitAlign /\ [][NextAlign]_vars

\* C14: HybridHeap's Alignment is the greatest common divisor of the nested
\* heaps' Alignments, whatever these are, and every non-null pointer malloc
\* returns, from either nested heap, is a multiple of it.
C14_AlignmentDivides ==
  LET a == AlignmentOf(al.sa, al.ba)
  IN  /\ al.sa % a = 0 /\ al.ba % a = 0
      /\ \A d \in 1..MaxAlign : (al.sa % d = 0 /\ al.ba % d = 0) => a % d = 0
      /\ (al.op = "malloc" /\ al.out = "ret" /\ al.ptr # Null) => al.ptr % a = 0

\* An NDEBUG build over heaps of Alignments 4 and 3 has returned a block of
\* BigHeap for a request above BigSize.
C14_Witness ==
  /\ al.ndebug /\ al.sa = 4 /\ al.ba = 3
  /\ al.op = "malloc" /\ al.heap = "Big" /\ al.sz > BigSize
  /\ al.ptr # Null /\ al.ptr % 4 # 0

(***************************************************************************)
(* Part V.  The libbacktrace state (USE_LIBBACKTRACE builds).              *)
(*                                                                         *)
(* Two static variables hold a backtrace_state*: the one local to          *)
(* get_libbacktrace_state (callstack.h), which Callstack::observe and      *)
(* Callstack::print use, and the one local to BacktraceHeap::print_leaks.  *)
(* Threads call Callstack::print, or print_leaks on one of NInst           *)
(* BacktraceHeap objects of the same type, each of which has its own       *)
(* _mutex.  The states backtrace_create_state returns are numbered 1, 2... *)
(***************************************************************************)

\* Bounds of the model: the BacktraceHeap objects, and the calls of
\* backtrace_create_state.
NInst == 2
MaxCreate == 3

Insts == 1..NInst

\* What backtrace_create_state may return: nullptr, or a new state.
Created == lz.csCreated + lz.hbCreated
CreateState == {Null, Created + 1}

\* The _mutex of BacktraceHeap object i is free for thread t.
InstFree(i, t) == \A u \in Threads \ {t} : lz.pc[u] = "idle" \/ lz.inst[u] # i

\* if (btstate == nullptr)
NeedsCreate(v) == v = Null

\* get_libbacktrace_state(): the initializer of a local static runs once,
\* whichever threads arrive, and the variable is not assigned again.
GetState(t, r) ==
  /\ lz.pc[t] = "idle"
  /\ IF lz.csInit
       THEN r = Null /\ UNCHANGED lz
       ELSE /\ Created < MaxCreate
            /\ r \in CreateState
            /\ lz' = [lz EXCEPT !.csInit = TRUE, !.csState = r,
                                !.csCreated = lz.csCreated + 1]
  /\ UNCHANGED <<lastCall, order, al, fr, hvars, bvars>>

\* print_leaks on object i: std::lock_guard guard(_mutex);
LeaksLock(t, i) ==
  /\ lz.pc[t] = "idle"
  /\ InstFree(i, t)
  /\ lz' = [lz EXCEPT !.pc[t] = "test", !.inst[t] = i]
  /\ UNCHANGED <<lastCall, order, al, fr, hvars, bvars>>

\* print_leaks: if (btstate == nullptr)
LeaksTest(t) ==
  /\ lz.pc[t] = "test"
  /\ lz' = [lz EXCEPT !.pc[t] = IF NeedsCreate(lz.hbState) THEN "create" ELSE "walk"]
  /\ UNCHANGED <<lastCall, order, al, fr, hvars, bvars>>

\* print_leaks: backtrace_create_state(nullptr, true, nullptr, nullptr)
LeaksCreate(t, r) ==
  /\ lz.pc[t] = "create"
  /\ Created < MaxCreate
  /\ r \in CreateState
  /\ lz' = [lz EXCEPT !.pc[t] = "assign", !.tmp[t] = r,
                      !.hbCreated = lz.hbCreated + 1]
  /\ UNCHANGED <<lastCall, order, al, fr, hvars, bvars>>

\* print_leaks: btstate = ...
LeaksAssign(t) ==
  /\ lz.pc[t] = "assign"
  /\ lz' = [lz EXCEPT !.pc[t] = "walk", !.tmp[t] = Null, !.hbState = lz.tmp[t],
                      !.reassigned = lz.reassigned \/ lz.hbState # Null]
  /\ UNCHANGED <<lastCall, order, al, fr, hvars, bvars>>

\* print_leaks: the loop, and the lock_guard's destructor.
LeaksUnlock(t) ==
  /\ lz.pc[t] = "walk"
  /\ lz' = [lz EXCEPT !.pc[t] = "idle", !.inst[t] = 0]
  /\ UNCHANGED <<lastCall, order, al, fr, hvars, bvars>>

NextLazy ==
  \E t \in Threads :
     \/ \E r \in {Null} \cup (1..MaxCreate) : GetState(t, r)
     \/ \E i \in Insts : LeaksLock(t, i)
     \/ LeaksTest(t)
     \/ \E r \in {Null} \cup (1..MaxCreate) : LeaksCreate(t, r)
     \/ LeaksAssign(t)
     \/ LeaksUnlock(t)

SpecLazy == Init /\ [][NextLazy]_vars

\* Two threads are between print_leaks' test of btstate and its assignment.
LazyRace ==
  \E t, u \in Threads : t # u /\ lz.pc[t] \in {"create", "assign"}
                               /\ lz.pc[u] \in {"create", "assign"}

\* C17: in every interleaving of threads that call print_leaks (on any
\* BacktraceHeap object) or format a Callstack, each shared libbacktrace state
\* is created once (backtrace_create_state is called at most once for each of
\* the two statics, also when it returns nullptr), no two threads are at the
\* creation together, and a static that holds a state is never assigned again.
C17_CreatedOnce ==
  /\ lz.csCreated <= 1
  /\ lz.hbCreated <= 1
  /\ ~LazyRace
  /\ ~lz.reassigned

(***************************************************************************)
(* Part VI.  Callstack::print and Callstack::observe, frame by frame.      *)
(*                                                                         *)
(* For each frame the inputs are what the backends return: dladdr (whether *)
(* it succeeds, whether it names a module and a symbol), backtrace_pcinfo  *)
(* (an error and no callback, or a sequence of callbacks, each with or     *)
(* without a function name, a file name and a line number), whether        *)
(* __cxa_demangle succeeds, and the call of updateFrame at which the       *)
(* observer asks to stop.  What print writes is a sequence of tokens.      *)
(***************************************************************************)

\* Bounds of the model: the frames of a Callstack and the callbacks
\* backtrace_pcinfo makes for one frame.
MaxFrames == 2
MaxCb == 2

\* _frames[i], counting from 1: the addresses are told apart by their index.
FrameAddr(i) == i

\* A callback of backtrace_pcinfo: has it a function, a file name, a line # 0.
Cbs == {c \in [fn : BOOLEAN, file : BOOLEAN, line : 0..1] : ~c.file => c.line = 0}
CbSeqs == UNION {[1..k -> Cbs] : k \in 1..MaxCb}
Dls == [ok : BOOLEAN, fname : BOOLEAN, sname : BOOLEAN]

\* if (!dladdr(_frames[i], &info)) memset(&info, 0, sizeof(info));
Info(dl) == IF dl.ok THEN dl ELSE NoDl

\* if (function) hasInfo = true;  if (filename != nullptr && lineno != 0) hasInfo = true;
CbInfo(c) == c.fn \/ (c.file /\ c.line # 0)

\* What one callback of print writes, given hasInfo at its entry.
CbOut(c, hasInfo, dm) ==
  (IF hasInfo THEN <<"cont">> ELSE <<>>)
  \o (IF c.fn THEN <<IF dm THEN "fn_demangled" ELSE "fn">> ELSE <<>>)
  \o (IF c.file /\ c.line # 0 THEN <<"file:line">> ELSE <<>>)

\* backtrace_pcinfo in print: the callbacks in turn, hasInfo carried along.
RECURSIVE PcinfoOut(_, _, _)
PcinfoOut(cbs, hasInfo, dm) ==
  IF cbs = <<>> THEN [out |-> <<>>, hasInfo |-> hasInfo]
  ELSE LET c == Head(cbs)
           r == PcinfoOut(Tail(cbs), hasInfo \/ CbInfo(c), dm)
       IN  [out |-> CbOut(c, hasInfo, dm) \o r.out, hasInfo |-> r.hasInfo]

\* if (!hasInfo && info.dli_sname != 0)
DynGuardMutant(hasInfo, sname) == sname
DynGuard(hasInfo, sname) == ~hasInfo /\ sname

\* What print writes for one frame.
FormatFrame(x, libbt) ==
  LET info == Info(x.dl)
      t1 == IF libbt /\ ~x.err THEN PcinfoOut(x.cbs, FALSE, x.dmFn)
                               ELSE [out |-> <<>>, hasInfo |-> FALSE]
  IN  <<"addr">>
      \o (IF info.fname THEN <<"module">> ELSE <<>>)
      \o t1.out
      \o (IF DynGuard(t1.hasInfo, info.sname)
            THEN <<IF x.dmSym THEN "sym_demangled" ELSE "sym", "offset">>
            ELSE <<>>)
      \o <<"nl">>

\* The calls of updateFrame observe makes for one frame: with libbacktrace one
\* for each callback until the observer returns false, none when
\* backtrace_pcinfo reports an error; without it, one call.
ObserveCalls(x, libbt) ==
  LET info == Info(x.dl)
      n == IF x.stop \in 1..Len(x.cbs) THEN x.stop ELSE Len(x.cbs)
  IN  IF libbt
        THEN IF x.err THEN <<>>
             ELSE [i \in 1..n |-> [pc |-> x.addr, module |-> info.fname,
                                   fn |-> x.cbs[i].fn, file |-> x.cbs[i].file,
                                   line |-> x.cbs[i].line]]
        ELSE <<[pc |-> x.addr, module |-> info.fname, fn |-> info.sname,
                file |-> FALSE, line |-> 0]>>

\* What backtrace_pcinfo does for one frame: an error and no callback, or at
\* least one callback; a build without libbacktrace does not call it.
PcResults(libbt) ==
  IF libbt THEN {[err |-> TRUE, cbs |-> <<>>]}
                \cup {[err |-> FALSE, cbs |-> q] : q \in CbSeqs}
           ELSE {[err |-> FALSE, cbs |-> <<>>]}

\* The inputs of the frame at addr, those the code does not read left at their
\* default.
FrameInputs(libbt, mode, addr) ==
  {x \in {[addr |-> addr, dl |-> dl, err |-> r.err, cbs |-> r.cbs, dmFn |-> df,
           dmSym |-> ds, stop |-> st] :
             dl \in Dls, r \in PcResults(libbt), df \in BOOLEAN, ds \in BOOLEAN,
             st \in 0..MaxCb} :
     /\ x.dmFn => mode = "print" /\ \E i \in 1..Len(x.cbs) : x.cbs[i].fn
     /\ x.dmSym => mode = "print" /\ Info(x.dl).sname
     /\ x.stop # 0 => mode = "observe" /\ x.stop <= (IF libbt THEN Len(x.cbs) ELSE 1)}

InitFrames ==
  /\ BtInit /\ HybridIdle /\ CallsIdle /\ AlignIdle /\ LazyIdle
  /\ fr \in {NoFrames(b) : b \in BOOLEAN}

\* Callstack(): _nFrames = ::backtrace(_frames, MAX_FRAMES); then print or observe.
NewCallstack(mode, n) ==
  /\ ~fr.inFrame
  /\ fr.i = fr.n \/ fr.done
  /\ fr' = [NoFrames(fr.libbt) EXCEPT !.mode = mode, !.n = n]
  /\ UNCHANGED <<lastCall, order, al, lz, hvars, bvars>>

\* The head of the loop over the frames, and in print the first statement of
\* its body: out << indent << std::setw(ptrFieldWidth) << _frames[i].
BeginFrame ==
  /\ fr.mode # "none" /\ ~fr.inFrame
  /\ fr.i < fr.n /\ ~fr.done
  /\ fr' = [fr EXCEPT !.inFrame = TRUE,
                      !.inp = [NoIn EXCEPT !.addr = FrameAddr(fr.i + 1)],
                      !.out = IF fr.mode = "print" THEN <<"addr">> ELSE <<>>,
                      !.outAddr = IF fr.mode = "print" THEN FrameAddr(fr.i + 1) ELSE 0,
                      !.calls = <<>>]
  /\ UNCHANGED <<lastCall, order, al, lz, hvars, bvars>>

\* print: the rest of one iteration, from dladdr to the newline.
PrintFrame ==
  /\ fr.mode = "print" /\ fr.inFrame
  /\ \E x \in FrameInputs(fr.libbt, "print", fr.inp.addr) :
       fr' = [fr EXCEPT !.inFrame = FALSE, !.i = fr.i + 1, !.inp = x,
                        !.out = FormatFrame(x, fr.libbt)]
  /\ UNCHANGED <<lastCall, order, al, lz, hvars, bvars>>

\* observe: the body of one iteration.
ObserveFrame ==
  /\ fr.mode = "observe" /\ fr.inFrame
  /\ \E x \in FrameInputs(fr.libbt, "observe", fr.inp.addr) :
       fr' = [fr EXCEPT !.inFrame = FALSE, !.i = fr.i + 1, !.inp = x,
                        !.calls = ObserveCalls(x, fr.libbt),
                        !.done = x.stop # 0]
  /\ UNCHANGED <<lastCall, order, al, lz, hvars, bvars>>

NextFrames ==
  \/ \E mode \in {"print", "observe"}, n \in 0..MaxFrames : NewCallstack(mode, n)
  \/ BeginFrame
  \/ PrintFrame
  \/ ObserveFrame

SpecFrames == InitFrames /\ [][NextFrames]_vars

Has(q, tok) == \E i \in 1..Len(q) : q[i] = tok

\* C18: for every frame that print or observe resolves, whatever the backends
\* return, the raw frame address is reported: print writes it first, and
\* observe calls updateFrame with it at least once.
C18_AddressReported ==
  (fr.inp.addr # 0 /\ ~fr.inFrame) =>
     /\ fr.mode = "print" => (fr.out[1] = "addr" /\ fr.outAddr = fr.inp.addr)
     /\ fr.mode = "observe" =>
           \E i \in 1..Len(fr.calls) : fr.calls[i].pc = fr.inp.addr

\* The debug-info tier gave a function name or a file and line for the frame.
DebugInfo == fr.libbt /\ \E i \in 1..Len(fr.inp.cbs) : CbInfo(fr.inp.cbs[i])
DynOut == Has(fr.out, "sym") \/ Has(fr.out, "sym_demangled")
DebugOut ==
  \/ Has(fr.out, "fn") \/ Has(fr.out, "fn_demangled")
  \/ Has(fr.out, "file:line") \/ Has(fr.out, "cont")

\* C19: print writes the dynamic symbol (demangled when __cxa_demangle
\* succeeds, followed by the offset) exactly when the debug-info tier gave no
\* function name and no file and line for the frame and dladdr gave a symbol;
\* when neither tier gives anything it writes the address and the module path
\* only; and it never writes both tiers' output for one frame.
C19_TierPriority ==
  (fr.mode = "print" /\ fr.inp.addr # 0 /\ ~fr.inFrame) =>
     LET info == Info(fr.inp.dl)
         n == Len(fr.out)
     IN  /\ DynOut <=> (~DebugInfo /\ info.sname)
         /\ DynOut => /\ fr.out[n - 1] = "offset"
                      /\ fr.out[n - 2] = (IF fr.inp.dmSym THEN "sym_demangled" ELSE "sym")
         /\ DebugOut <=> DebugInfo
         /\ (~DebugInfo /\ ~info.sname) =>
               fr.out = <<"addr">> \o (IF info.fname THEN <<"module">> ELSE <<>>)
                        \o <<"nl">>
         /\ ~(DynOut /\ DebugOut)

\* A libbacktrace build has printed a frame for which backtrace_pcinfo made two
\* callbacks without a function or a usable line, and dladdr gave a symbol.
C19_Witness ==
  /\ fr.mode = "print" /\ fr.libbt /\ ~fr.inFrame /\ Len(fr.inp.cbs) = 2
  /\ fr.inp.cbs[1].file /\ ~DebugInfo
  /\ DynOut

====
